---- MODULE Spec2Model ----
(***************************************************************************)
(* Model of the home energy controller: the decision function              *)
(* control_energy_flow of EnergyController.py and the caller's cycle that  *)
(* feeds the decided battery modes back as the next snapshot, and its      *)
(* endless loop main_loop (MyEnergyController.py).                         *)
(*                                                                         *)
(* Conventions.  Python list indices i = 0..n-1 are the sequence indices   *)
(* i+1 = 1..n here; None is 0.  efficiency is kept in percent (100 = 1.0). *)
(* Every float expression of the source is computed as the exact rational  *)
(* it denotes.  Where that rational is exactly halfway between two         *)
(* integers the float the source computes lies on the half or a rounding   *)
(* error to either side of it, so round() returns one neighbour or the     *)
(* other: the model draws that choice (up) as an input of the call.        *)
(***************************************************************************)
EXTENDS Integers, Sequences, FiniteSets, TLC

VARIABLES batteries, carState, P1Usage, now, result, pc, prev_auto, loop, mode

vars == <<batteries, carState, P1Usage, now, result, pc, prev_auto, loop, mode>>

(***************************************************************************)
(* Bounds of the model and the sets the inputs are drawn from.             *)
(***************************************************************************)
MaxBatteries == 3

Charges == {20, 45, 60, 100}

GridUsages == {-2500, -40, 1000, 1600, 4000}

\* Monday 12:00 (peak) and Saturday 23:00 (off-peak)
Times == {[weekday |-> 0, hour |-> 12], [weekday |-> 5, hour |-> 23]}

\* Inputs of the car-intent runs: days Monday, Friday, Saturday, Sunday and the
\* hours around the two ends of the peak window
CarTimes == [weekday : {0, 4, 5, 6}, hour : {0, 6, 7, 12, 21, 22}]

CarCharges == {20, 45, 90, 100}

CarGridUsages == {-2500, -1, 0, 1, 1000}

\* Inputs of the multi-cycle runs
CycleCharges == {20, 45, 48, 60, 95}

\* Inputs of the selection runs: charges and imbalances on both sides of the
\* thresholds of the automatic-battery selection
AutoCharges == {20, 21, 94, 95}

AutoGridUsages == {-4000, -101, -100, 100, 101, 1000, 4000}

(***************************************************************************)
(* Arithmetic helpers.                                                     *)
(***************************************************************************)
None == 0

Abs(x) == IF x < 0 THEN -x ELSE x

Max2(a, b) == IF a >= b THEN a ELSE b

Min2(a, b) == IF a <= b THEN a ELSE b

\* num / den lies exactly halfway between two integers
IsTie(num, den) == 2 * (Abs(num) % den) = den

\* round(num / den) for num >= 0, den > 0; at a tie the larger neighbour if up
RoundNearest(num, den, up) ==
    LET q == num \div den
        r == num % den
    IN  IF 2 * r < den THEN q
        ELSE IF 2 * r > den THEN q + 1
        ELSE IF up THEN q + 1 ELSE q

\* int(round(num / den)) for any sign of num, den > 0
PyRound(num, den, up) ==
    IF num >= 0 THEN RoundNearest(num, den, up) ELSE -RoundNearest(-num, den, up)

RECURSIVE SumCharge(_, _)
SumCharge(bats, k) ==
    IF k = 0 THEN 0 ELSE bats[k].charge + SumCharge(bats, k - 1)

RECURSIVE SumEffective(_, _)
SumEffective(bats, k) ==
    IF k = 0 THEN 0 ELSE bats[k].effectivePower + SumEffective(bats, k - 1)

(***************************************************************************)
(* Utility functions for state evaluation.                                 *)
(***************************************************************************)
all_above(bats, level) == \A i \in 1..Len(bats) : bats[i].charge >= level

all_below(bats, level) == \A i \in 1..Len(bats) : bats[i].charge <= level

remaining_capacity(bat) == Max2(0, 2500 - Abs(bat.effectivePower))

\* weighted_charge(bat) as the fraction WeightNum / WeightDen
WeightNum(bat) ==
    bat.charge * bat.efficiency
        * (IF bat.internalResistance = 0 THEN 11
           ELSE 10 * (2 + bat.internalResistance))

WeightDen(bat) ==
    IF bat.internalResistance = 0 THEN 1000
    ELSE 1000 * (1 + bat.internalResistance)

\* weighted_charge(a) < weighted_charge(b).  The exact comparison is the
\* float comparison of the source wherever the two exact weights differ or
\* have the same factors, which is the case for every snapshot drawn below
WeightLess(a, b) == WeightNum(a) * WeightDen(b) < WeightNum(b) * WeightDen(a)

(***************************************************************************)
(* Battery selection.                                                      *)
(***************************************************************************)
\* next((i for i, b in enumerate(bats) if b.get("isAutomatic")), None)
FirstAutomatic(bats) ==
    IF \E i \in 1..Len(bats) : bats[i].isAutomatic
    THEN CHOOSE i \in 1..Len(bats) :
            /\ bats[i].isAutomatic
            /\ \A j \in 1..(i - 1) : ~bats[j].isAutomatic
    ELSE None

\* max(candidates, key=weighted_charge): the first index of maximal weight
ArgMax(bats, candidates) ==
    CHOOSE i \in candidates :
        \A j \in candidates :
            /\ ~WeightLess(bats[i], bats[j])
            /\ (j < i => WeightLess(bats[j], bats[i]))

\* min(candidates, key=weighted_charge): the first index of minimal weight
ArgMin(bats, candidates) ==
    CHOOSE i \in candidates :
        \A j \in candidates :
            /\ ~WeightLess(bats[j], bats[i])
            /\ (j < i => WeightLess(bats[i], bats[j]))

\* sorted(range(n), key=charge, reverse=rev): a stable sort, so equal charges
\* keep their index order in both directions
Before(bats, rev, i, j) ==
    \/ (IF rev THEN bats[i].charge > bats[j].charge
               ELSE bats[i].charge < bats[j].charge)
    \/ (bats[i].charge = bats[j].charge /\ i < j)

RECURSIVE SortIdx(_, _, _)
SortIdx(bats, rev, left) ==
    IF left = {} THEN <<>>
    ELSE LET first == CHOOSE i \in left :
                          \A j \in left \ {i} : Before(bats, rev, i, j)
         IN  <<first>> \o SortIdx(bats, rev, left \ {first})

SortedByCharge(bats, rev) == SortIdx(bats, rev, 1..Len(bats))

\* Outcome of get_auto_candidate: an index, or the exception that max(), min()
\* or the subscript raises on an empty list
get_auto_candidate(bats, effective_p1) ==
    LET valid_idxs == 1..Len(bats) IN
    IF effective_p1 > 100
    THEN LET safe == {i \in valid_idxs : bats[i].charge > 20}
             candidates == IF safe = {} THEN valid_idxs ELSE safe
         IN  IF candidates = {} THEN [raises |-> "ValueError", idx |-> None]
             ELSE [raises |-> "", idx |-> ArgMax(bats, candidates)]
    ELSE IF effective_p1 < -100
    THEN LET safe == {i \in valid_idxs : bats[i].charge < 95}
             candidates == IF safe = {} THEN valid_idxs ELSE safe
         IN  IF candidates = {} THEN [raises |-> "ValueError", idx |-> None]
             ELSE [raises |-> "", idx |-> ArgMin(bats, candidates)]
    ELSE IF Len(bats) = 0 THEN [raises |-> "IndexError", idx |-> None]
         ELSE [raises |-> "",
               idx |-> SortedByCharge(bats, FALSE)[(Len(bats) \div 2) + 1]]

\* The hysteresis without the rule that keeps the old battery on a small imbalance
KeepOrSwitch_NoSmallImbalance(bats, effective_p1, current_auto_idx, candidate_idx) ==
    IF current_auto_idx = None THEN candidate_idx
    ELSE LET old_charge == bats[current_auto_idx].charge
             diff == Abs(bats[candidate_idx].charge - old_charge)
         IN  IF diff < 5 /\ 20 < old_charge /\ old_charge < 95
             THEN current_auto_idx
             ELSE candidate_idx

\* The hysteresis without the rule that an incumbent at or beyond a limit
\* always gives way to the candidate
KeepOrSwitch_KeepsIncumbentAtLimit(bats, effective_p1, current_auto_idx, candidate_idx) ==
    IF current_auto_idx = None THEN candidate_idx
    ELSE LET old_charge == bats[current_auto_idx].charge
             diff == Abs(bats[candidate_idx].charge - old_charge)
         IN  IF diff < 5 /\ 20 < old_charge /\ old_charge < 95
             THEN current_auto_idx
             ELSE IF Abs(effective_p1) < 1500
             THEN current_auto_idx
             ELSE candidate_idx

\* The hysteresis of select_auto_battery, once the candidate is known
KeepOrSwitch(bats, effective_p1, current_auto_idx, candidate_idx) ==
    IF current_auto_idx = None THEN candidate_idx
    ELSE LET old_charge == bats[current_auto_idx].charge
             diff == Abs(bats[candidate_idx].charge - old_charge)
         IN  IF diff < 5 /\ 20 < old_charge /\ old_charge < 95
             THEN current_auto_idx
             ELSE IF old_charge <= 20 \/ old_charge >= 95
             THEN candidate_idx
             ELSE IF Abs(effective_p1) < 1500
             THEN current_auto_idx
             ELSE candidate_idx

select_auto_battery(bats, effective_p1) ==
    LET cand == get_auto_candidate(bats, effective_p1) IN
    IF cand.raises # "" THEN cand
    ELSE [raises |-> "",
          idx |-> KeepOrSwitch(bats, effective_p1, FirstAutomatic(bats), cand.idx)]

(***************************************************************************)
(* Car intent.                                                             *)
(***************************************************************************)
compute_car_intent(car, usage, low_hours, bats, up) ==
    IF ~car.IsCarConnected THEN 0
    ELSE IF usage < 0
    THEN IF all_above(bats, 90) THEN Abs(usage)
         ELSE PyRound(Abs(usage) * 85, 100, up)
    ELSE IF low_hours /\ all_above(bats, 90) THEN 1400
    ELSE IF low_hours /\ ~all_below(bats, 20) THEN 1400
    ELSE 0

(***************************************************************************)
(* Capacity guard and manual helper allocation.                            *)
(***************************************************************************)
\* can_auto_handle looking at the new automatic battery only
can_auto_handle_NewOnly(effective_p1, bats, old_auto_idx, auto_idx) ==
    2 * Abs(effective_p1) <= 3000 + remaining_capacity(bats[auto_idx])

\* abs(effective_p1) <= 1500 + max_cap / 2, with old_auto None when
\* old_auto_idx is None
can_auto_handle(effective_p1, bats, old_auto_idx, auto_idx) ==
    LET new_cap == remaining_capacity(bats[auto_idx])
        max_cap == IF old_auto_idx = None THEN new_cap
                   ELSE Max2(remaining_capacity(bats[old_auto_idx]), new_cap)
    IN  2 * Abs(effective_p1) <= 3000 + max_cap

\* Idle without clearing the automatic flag
IdleKeepsAutomatic(b) == [b EXCEPT !.isManual = FALSE, !.manualSetPower = 0]

\* Idle without resetting the setpoint
IdleKeepsSetpoint(b) == [b EXCEPT !.isManual = FALSE, !.isAutomatic = FALSE]

Idle(b) == [b EXCEPT !.isManual = FALSE, !.manualSetPower = 0,
                     !.isAutomatic = FALSE]

\* Direction with the two signs exchanged
DirectionFlipped(effective_p1) == IF effective_p1 > 0 THEN 1 ELSE -1

\* +1 charge, -1 discharge
Direction(effective_p1) == IF effective_p1 > 0 THEN -1 ELSE 1

NeedPower(effective_p1) == Min2(2500, Abs(effective_p1)) * Direction(effective_p1)

\* scale = min(1.0, overload / 1000.0), in thousandths
ScaleMilli(effective_p1) == Min2(1000, Abs(effective_p1) - 1500)

\* The setpoint a helper of the given charge receives, before the clamp, as the
\* fraction ShareNum / ShareDen that round() is applied to
ShareDen(bats) ==
    LET n == Len(bats)
        high == CHOOSE c \in {bats[i].charge : i \in 1..n} :
                    \A i \in 1..n : bats[i].charge <= c
        low == CHOOSE c \in {bats[i].charge : i \in 1..n} :
                    \A i \in 1..n : bats[i].charge >= c
    IN  IF high - low > 10 THEN 2000 * n * Max2(1, high - low) ELSE 1000

ShareNum(bats, charge, effective_p1) ==
    LET n == Len(bats)
        S == SumCharge(bats, n)
        high == CHOOSE c \in {bats[i].charge : i \in 1..n} :
                    \A i \in 1..n : bats[i].charge <= c
        low == CHOOSE c \in {bats[i].charge : i \in 1..n} :
                    \A i \in 1..n : bats[i].charge >= c
        diff == high - low
        D == Max2(1, diff)
        need == NeedPower(effective_p1)
        sc == ScaleMilli(effective_p1)
    IN  IF diff > 10
        THEN need * sc * (n * D + Abs(n * charge - S))
        ELSE need * sc

HelperShare(bats, charge, effective_p1, up) ==
    PyRound(ShareNum(bats, charge, effective_p1), ShareDen(bats), up)

Clamp(p) == Max2(-2500, Min2(2500, p))

\* One pass of the body of "for i in order"
HelperStep(bats, i, auto_idx, effective_p1, up) ==
    IF i = auto_idx THEN bats
    ELSE IF \/ (Direction(effective_p1) < 0 /\ bats[i].charge <= 20)
            \/ (Direction(effective_p1) > 0 /\ bats[i].charge >= 100)
    THEN [bats EXCEPT ![i] = Idle(bats[i])]
    ELSE [bats EXCEPT ![i] =
            [bats[i] EXCEPT !.isManual = TRUE, !.isAutomatic = FALSE,
                !.manualSetPower =
                    Clamp(HelperShare(bats, bats[i].charge, effective_p1,
                                      i \in up))]]

RECURSIVE HelperLoop(_, _, _, _, _, _)
HelperLoop(bats, order, k, auto_idx, effective_p1, up) ==
    IF k > Len(order) THEN bats
    ELSE HelperLoop(HelperStep(bats, order[k], auto_idx, effective_p1, up),
                    order, k + 1, auto_idx, effective_p1, up)

\* Small-power cutoff
Cutoff(bats) ==
    [i \in 1..Len(bats) |->
        IF bats[i].isManual /\ Abs(bats[i].manualSetPower) < 300
        THEN [bats[i] EXCEPT !.isManual = FALSE, !.manualSetPower = 0]
        ELSE bats[i]]

assign_manual_powers(bat_out, auto_idx, effective_p1, old_auto_idx, up) ==
    IF can_auto_handle(effective_p1, bat_out, old_auto_idx, auto_idx)
    THEN [i \in 1..Len(bat_out) |->
            IF i # auto_idx THEN Idle(bat_out[i]) ELSE bat_out[i]]
    ELSE Cutoff(HelperLoop(bat_out,
                           SortedByCharge(bat_out, Direction(effective_p1) <= 0),
                           1, auto_idx, effective_p1, up))

enforce_boundaries(bat_out) ==
    [i \in 1..Len(bat_out) |->
        LET b == bat_out[i]
            full == IF b.charge >= 100 /\ b.manualSetPower > 0
                    THEN [b EXCEPT !.manualSetPower = 0, !.isManual = FALSE]
                    ELSE b
        IN  IF full.charge <= 20 /\ full.manualSetPower < 0
            THEN [full EXCEPT !.manualSetPower = 0, !.isManual = FALSE]
            ELSE full]

(***************************************************************************)
(* Main orchestration.                                                     *)
(***************************************************************************)
\* LowHours with the peak window opening an hour late
LowHoursLateMorning(t) == ~(t.weekday < 5 /\ 7 < t.hour /\ t.hour < 22)

\* weekday = now.weekday() < 5; peak_hours = weekday and 7 <= now.hour < 22
LowHours(t) == ~(t.weekday < 5 /\ 7 <= t.hour /\ t.hour < 22)

\* The copy bat_out of the caller's list: fresh records with the same fields
CopyBatteries(bats) ==
    [i \in 1..Len(bats) |->
        [charge |-> bats[i].charge,
         isManual |-> bats[i].isManual,
         manualSetPower |-> bats[i].manualSetPower,
         isAutomatic |-> bats[i].isAutomatic,
         ip |-> bats[i].ip,
         effectivePower |-> bats[i].effectivePower,
         efficiency |-> bats[i].efficiency,
         internalResistance |-> bats[i].internalResistance]]

SelectAutomatic(bat_out, auto_idx) ==
    [bat_out EXCEPT ![auto_idx] =
        [bat_out[auto_idx] EXCEPT !.isAutomatic = TRUE, !.isManual = FALSE,
                                  !.manualSetPower = 0]]

\* control_energy_flow with the caller's list, not bat_out, in the payload
control_energy_flow_ReturnsInput(bats, car, usage, t, up) ==
    LET low_hours == LowHours(t)
        car_intended == compute_car_intent(car, usage, low_hours, bats, up.car)
        effective_p1 == usage + car_intended + SumEffective(bats, Len(bats))
        sel == select_auto_battery(bats, effective_p1)
    IN  IF sel.raises # ""
        THEN [kind |-> sel.raises, batteries |-> <<>>, carIntent |-> 0,
              debug |-> [effective_p1 |-> 0, old_auto_idx |-> None,
                         new_auto_idx |-> None, low_hours |-> FALSE]]
        ELSE [kind |-> "ok",
              batteries |-> bats,
              carIntent |-> car_intended,
              debug |-> [effective_p1 |-> effective_p1,
                         old_auto_idx |-> FirstAutomatic(bats),
                         new_auto_idx |-> sel.idx,
                         low_hours |-> low_hours]]

\* The value control_energy_flow returns, or the exception it raises; up says
\* how the ties of this call round: up.car for the car intent, up.helpers the
\* batteries whose share rounds to the larger neighbour
control_energy_flow(bats, car, usage, t, up) ==
    LET low_hours == LowHours(t)
        bat_out == CopyBatteries(bats)
        car_intended == compute_car_intent(car, usage, low_hours, bat_out, up.car)
        effective_p1 == usage + car_intended + SumEffective(bat_out, Len(bat_out))
        old_auto_idx == FirstAutomatic(bats)
        sel == select_auto_battery(bat_out, effective_p1)
    IN  IF sel.raises # ""
        THEN [kind |-> sel.raises, batteries |-> <<>>, carIntent |-> 0,
              debug |-> [effective_p1 |-> 0, old_auto_idx |-> None,
                         new_auto_idx |-> None, low_hours |-> FALSE]]
        ELSE [kind |-> "ok",
              batteries |->
                  enforce_boundaries(
                      assign_manual_powers(SelectAutomatic(bat_out, sel.idx),
                                           sel.idx, effective_p1, old_auto_idx,
                                           up.helpers)),
              carIntent |-> car_intended,
              debug |-> [effective_p1 |-> effective_p1,
                         old_auto_idx |-> old_auto_idx,
                         new_auto_idx |-> sel.idx,
                         low_hours |-> low_hours]]

(***************************************************************************)
(* The caller: snapshots, the call, and the feedback of the decided modes. *)
(***************************************************************************)
\* ips of singleRun; a snapshot built without "ip" keys carries ""
Ips == <<"192.168.2.108", "192.168.2.147", "192.168.2.233", "", "">>

NoResult ==
    [kind |-> "none", batteries |-> <<>>, carIntent |-> 0,
     debug |-> [effective_p1 |-> 0, old_auto_idx |-> None,
                new_auto_idx |-> None, low_hours |-> FALSE]]

\* How the flags and setpoints of a snapshot of n batteries are filled in:
\* which batteries are flagged automatic, the setpoint every battery still
\* carries (non-zero: left in manual mode, out of range), and which batteries
\* report a lower efficiency and an internal resistance
Variants(n) ==
    {[flagged |-> {}, stale |-> 0, lossy |-> {}]}
    \cup {[flagged |-> {i}, stale |-> 0, lossy |-> {}] : i \in 1..n}
    \cup {[flagged |-> 1..n, stale |-> 4000, lossy |-> {}],
          [flagged |-> {}, stale |-> -4000, lossy |-> {}],
          [flagged |-> {}, stale |-> 0, lossy |-> 1..Min2(n, 1)]}

\* The flows a snapshot reports: none, the first battery or all but the first or
\* all discharging at full power, or the first battery charging
Flows == {"none", "first", "rest", "all", "firstCharging"}

FlowOf(flow, i) ==
    CASE flow = "none" -> 0
      [] flow = "first" -> IF i = 1 THEN -2500 ELSE 0
      [] flow = "rest" -> IF i = 1 THEN 0 ELSE -2500
      [] flow = "all" -> -2500
      [] flow = "firstCharging" -> IF i = 1 THEN 1200 ELSE 0

MakeFleet(n, charge, flow, v) ==
    [i \in 1..n |->
        [charge |-> charge[i],
         isManual |-> v.stale # 0,
         manualSetPower |-> v.stale,
         isAutomatic |-> i \in v.flagged,
         ip |-> Ips[i],
         effectivePower |-> FlowOf(flow, i),
         efficiency |-> IF i \in v.lossy THEN 50 ELSE 100,
         internalResistance |-> IF i \in v.lossy THEN 1 ELSE 0]]

\* bats is a snapshot of some size in sizes with charges drawn from charges,
\* flags and flows filled in one of the given ways
IsFleet(bats, sizes, charges, variants, flows) ==
    \E n \in sizes :
        \E c \in [1..n -> charges], f \in flows, v \in Variants(n) \cap variants :
            bats = MakeFleet(n, c, f, v)

AllVariants == UNION {Variants(n) : n \in 0..(MaxBatteries + 1)}

\* A snapshot with no battery flagged, no setpoint left over, default weights
Clean == [flagged |-> {}, stale |-> 0, lossy |-> {}]

Cars == [IsCarConnected : BOOLEAN, CarIntendedPowerUsage : {0}, CarPowerUsage : {0}]

Init ==
    /\ IsFleet(batteries, 0..MaxBatteries, Charges, AllVariants, Flows)
    /\ carState \in Cars
    /\ P1Usage \in GridUsages
    /\ now \in Times
    /\ result = NoResult
    /\ pc = "ready"
    /\ prev_auto = None
    /\ loop = "off"
    /\ mode = <<>>

\* The call working on the caller's records themselves (no copy)
CallerListAliased(bats, bat_final) == IF bat_final = <<>> THEN bats ELSE bat_final

\* What the caller's list holds after the call: every write of the call goes to
\* the fresh records of bat_out, none to the caller's
CallerListAfter(bats, bat_final) == bats

\* The ways the ties of a call on this snapshot can round: a choice for the car
\* intent if 0.85 * |usage| is a tie, and for every battery whose share is one
\* (shares are computed only beyond the 1500 W that the guard always covers)
Roundings(bats, car, usage, t) ==
    UNION {
        LET imb == usage + compute_car_intent(car, usage, LowHours(t), bats, c)
                         + SumEffective(bats, Len(bats))
            tied == {i \in 1..Len(bats) :
                        /\ Abs(imb) > 1500
                        /\ IsTie(ShareNum(bats, bats[i].charge, imb), ShareDen(bats))}
        IN  {[car |-> c, helpers |-> H] : H \in SUBSET tied}
        : c \in IF IsTie(Abs(usage) * 85, 100) THEN BOOLEAN ELSE {FALSE}}

\* One call of control_energy_flow on the current snapshot
ControlEnergyFlow ==
    /\ pc = "ready"
    /\ \E up \in Roundings(batteries, carState, P1Usage, now) :
          result' = control_energy_flow(batteries, carState, P1Usage, now, up)
    /\ batteries' = CallerListAfter(batteries, result'.batteries)
    /\ pc' = "done"
    /\ UNCHANGED <<carState, P1Usage, now, prev_auto, loop, mode>>

\* The caller's next cycle (singleRun): the decided modes were sent to the
\* devices, so the automatic battery reports mode Auto and every other one mode
\* Manual; the meter is read again and one battery reports a new charge
NextCycle ==
    /\ pc = "done"
    /\ result.kind = "ok"
    /\ \E usage \in GridUsages, k \in 1..Len(batteries), c \in CycleCharges :
        /\ P1Usage' = usage
        /\ (usage # P1Usage => c = batteries[k].charge /\ k = 1)
        /\ batteries' =
              [i \in 1..Len(batteries) |->
                  [result.batteries[i] EXCEPT
                      !.charge = IF i = k THEN c ELSE @,
                      !.isManual = ~result.batteries[i].isAutomatic,
                      !.manualSetPower = 0]]
    /\ prev_auto' = result.debug.new_auto_idx
    /\ result' = NoResult
    /\ pc' = "ready"
    /\ UNCHANGED <<carState, now, loop, mode>>

Next == ControlEnergyFlow

Spec == Init /\ [][Next]_vars

\* Car-intent runs: every day and hour of CarTimes, small fleets
InitCar ==
    /\ IsFleet(batteries, 0..MaxBatteries, CarCharges, {Clean}, {"none"})
    /\ carState \in Cars
    /\ P1Usage \in CarGridUsages
    /\ now \in CarTimes
    /\ result = NoResult
    /\ pc = "ready"
    /\ prev_auto = None
    /\ loop = "off"
    /\ mode = <<>>

SpecCar == InitCar /\ [][Next]_vars

\* Multi-cycle runs: a first snapshot with no battery flagged, then the decided
\* flags fed back cycle after cycle
InitCycles ==
    /\ IsFleet(batteries, 0..MaxBatteries, CycleCharges, {Clean}, Flows)
    /\ carState \in {c \in Cars : ~c.IsCarConnected}
    /\ P1Usage \in GridUsages
    /\ now \in {t \in Times : t.weekday = 0}
    /\ result = NoResult
    /\ pc = "ready"
    /\ prev_auto = None
    /\ loop = "off"
    /\ mode = <<>>

NextCycles == ControlEnergyFlow \/ NextCycle

SpecCycles == InitCycles /\ [][NextCycles]_vars

\* Selection runs: every battery in turn, none or all flagged as the previous
\* automatic one, charges at the limits of the safe ranges
InitAuto ==
    /\ IsFleet(batteries, 0..MaxBatteries, AutoCharges, AllVariants,
               {"none", "firstCharging"})
    /\ carState \in {c \in Cars : ~c.IsCarConnected}
    /\ P1Usage \in AutoGridUsages
    /\ now \in {t \in Times : t.weekday = 0}
    /\ result = NoResult
    /\ pc = "ready"
    /\ prev_auto = None
    /\ loop = "off"
    /\ mode = <<>>

SpecAuto == InitAuto /\ [][Next]_vars

(***************************************************************************)
(* The service: main_loop running singleRun against the devices.           *)
(***************************************************************************)
\* Inputs of the loop runs: the state of charge a battery reports (0 when the
\* answer has no bat_soc), the flows, and what the meter read returns
LoopCharges == {0, 60}

LoopFlows == {"none", "all"}

MeterPowers == {-2500, 4000}

MeterErrors == {"KeyError", "HTTPError"}

\* Outcomes of get_current_power: the power it returns, or the exception it
\* raises (no active_power_w in the answer, or the request failed)
MeterReads ==
    [raises : {""}, power : MeterPowers] \cup [raises : MeterErrors, power : {0}]

Modes == {"Auto", "Manual"}

\* ips of singleRun, as indices into Ips
SingleRunIps == 1..3

\* The elements of a set of indices in increasing order
RECURSIVE InOrder(_)
InOrder(S) ==
    IF S = {} THEN <<>>
    ELSE LET m == CHOOSE x \in S : \A y \in S : x <= y
         IN  <<m>> \o InOrder(S \ {m})

\* The list singleRun builds from the statuses: one entry per battery that
\* answered, in the order of ips, flags from the mode the device reports
Snapshot(answered, soc, flow, modes) ==
    LET order == InOrder(answered) IN
    [k \in 1..Len(order) |->
        [charge |-> soc[order[k]],
         isManual |-> modes[order[k]] = "Manual",
         manualSetPower |-> 0,
         isAutomatic |-> modes[order[k]] = "Auto",
         ip |-> Ips[order[k]],
         effectivePower |-> FlowOf(flow, order[k]),
         efficiency |-> 100,
         internalResistance |-> 0]]

\* The modes of the devices after the decisions were sent: Auto to the
\* automatic battery, Manual to every other battery of the decision; a command
\* to a battery in lost never arrives (set_battery_status swallows the failure)
Applied(modes, answered, decided, lost) ==
    LET order == InOrder(answered) IN
    [i \in SingleRunIps |->
        IF i \in answered \ lost
        THEN LET k == CHOOSE k \in 1..Len(order) : order[k] = i
             IN  IF decided[k].isAutomatic THEN "Auto" ELSE "Manual"
        ELSE modes[i]]

Raised(exception) == [NoResult EXCEPT !.kind = exception]

\* singleRun followed by what main_loop does with its outcome: on a return the
\* loop goes to sleep; an exception leaves the while loop for the handler
\* "except Exception" and main_loop returns
SingleRun ==
    /\ loop = "while"
    /\ \E answered \in SUBSET SingleRunIps, flow \in LoopFlows,
          meter \in MeterReads :
        \E soc \in [answered -> LoopCharges], lost \in {{}, answered} :
            LET snapshot == Snapshot(answered, soc, flow, mode)
                t == now
                car == [IsCarConnected |-> FALSE, CarIntendedPowerUsage |-> 0,
                        CarPowerUsage |-> 0]
            IN  /\ batteries' = snapshot
                /\ carState' = car
                /\ IF meter.raises # ""
                   THEN /\ result' = Raised(meter.raises)
                        /\ UNCHANGED <<P1Usage, mode>>
                        /\ loop' = "fatal"
                   ELSE /\ P1Usage' = meter.power
                        /\ \E up \in Roundings(snapshot, car, meter.power, t) :
                              result' = control_energy_flow(snapshot, car,
                                                            meter.power, t, up)
                        /\ IF result'.kind = "ok"
                           THEN /\ mode' = Applied(mode, answered,
                                                   result'.batteries, lost)
                                /\ loop' = "sleep"
                           ELSE /\ UNCHANGED mode
                                /\ loop' = "fatal"
    /\ UNCHANGED <<now, pc, prev_auto>>

\* time.sleep(60) returns and the while loop starts the next cycle
Sleep ==
    /\ loop = "sleep"
    /\ loop' = "while"
    /\ UNCHANGED <<batteries, carState, P1Usage, now, result, pc, prev_auto, mode>>

\* The user interrupts main_loop: "except KeyboardInterrupt", main_loop returns
KeyboardInterrupt ==
    /\ loop \in {"while", "sleep"}
    /\ loop' = "stopped"
    /\ UNCHANGED <<batteries, carState, P1Usage, now, result, pc, prev_auto, mode>>

InitLoop ==
    /\ batteries = <<>>
    /\ carState \in {c \in Cars : ~c.IsCarConnected}
    /\ P1Usage = 0
    /\ now \in Times
    /\ result = NoResult
    /\ pc = "ready"
    /\ prev_auto = None
    /\ loop = "while"
    /\ mode \in [SingleRunIps -> Modes]

NextLoop == SingleRun \/ Sleep \/ KeyboardInterrupt

\* The process keeps running: a cycle that can be taken is taken and a sleep
\* ends; nothing makes the user interrupt
SpecLoop ==
    InitLoop /\ [][NextLoop]_vars /\ WF_vars(SingleRun) /\ WF_vars(Sleep)


(***************************************************************************)
(* Properties.                                                             *)
(***************************************************************************)
Returned == pc = "done" /\ result.kind = "ok"

Out == result.batteries

\* The imbalance of the decided snapshot, from the inputs and the car intent
NetImbalance == P1Usage + result.carIntent + SumEffective(batteries, Len(batteries))

AutomaticOut == {i \in 1..Len(Out) : Out[i].isAutomatic}

IsIdle(b) == ~b.isManual /\ ~b.isAutomatic /\ b.manualSetPower = 0

\* C1: for every non-empty battery list the call returns, and its output has
\* exactly one battery with isAutomatic = true, whose manualSetPower is 0,
\* also when the snapshot flags no battery or several as automatic
C1_ExactlyOneAutomatic ==
    (pc = "done" /\ Len(batteries) > 0) =>
        /\ result.kind = "ok"
        /\ Cardinality(AutomaticOut) = 1
        /\ \A i \in AutomaticOut : Out[i].manualSetPower = 0

\* C1 witness: a snapshot with several batteries flagged automatic was decided
C1_Witness ==
    /\ Returned
    /\ Cardinality({i \in 1..Len(batteries) : batteries[i].isAutomatic}) >= 2
    /\ Cardinality(AutomaticOut) = 1
    /\ \E i \in 1..Len(Out) : Out[i].isManual

\* C2: in the output no battery with charge <= 20 has manualSetPower < 0 and
\* none with charge >= 100 has manualSetPower > 0
C2_SafeSetpoints ==
    Returned =>
        \A i \in 1..Len(Out) :
            /\ (Out[i].charge <= 20 => Out[i].manualSetPower >= 0)
            /\ (Out[i].charge >= 100 => Out[i].manualSetPower <= 0)

\* C2 witness: helpers were told to discharge while a depleted battery that
\* came in with a negative setpoint stayed without one
C2_Witness ==
    /\ Returned
    /\ \E i \in 1..Len(Out) : Out[i].isManual /\ Out[i].manualSetPower < 0
    /\ \E i \in 1..Len(Out) :
        /\ batteries[i].charge <= 20
        /\ batteries[i].manualSetPower < 0
        /\ ~Out[i].isAutomatic
        /\ Out[i].manualSetPower = 0

\* C3: every output manualSetPower lies in [-2500, 2500], also when the input
\* carried a setpoint outside that range
C3_SetpointRange ==
    Returned =>
        \A i \in 1..Len(Out) :
            -2500 <= Out[i].manualSetPower /\ Out[i].manualSetPower <= 2500

\* C3 witness: every input setpoint was out of range; one battery became a
\* helper with a setpoint of its own, another was left without one
C3_Witness ==
    /\ Returned
    /\ \A i \in 1..Len(batteries) : Abs(batteries[i].manualSetPower) > 2500
    /\ \E i \in 1..Len(Out) : Out[i].isManual /\ Abs(Out[i].manualSetPower) >= 1250
    /\ \E i \in 1..Len(Out) : ~Out[i].isAutomatic /\ Out[i].manualSetPower = 0

\* C4: called with an empty battery list, the call fails with InvalidInput
C4_EmptyFleetInvalidInput ==
    (pc = "done" /\ batteries = <<>>) => result.kind = "InvalidInput"

\* C5: scenario F (45% previously automatic and 60%, no flows, car disconnected,
\* gridUsage -2500, Monday noon): some battery ends manual with a positive
\* setpoint, and every such battery has charge <= 60
ScenarioF ==
    /\ Len(batteries) = 2
    /\ batteries[1].charge = 45 /\ batteries[1].isAutomatic
    /\ batteries[2].charge = 60 /\ ~batteries[2].isAutomatic
    /\ \A i \in 1..2 : /\ batteries[i].effectivePower = 0
                       /\ ~batteries[i].isManual
                       /\ batteries[i].manualSetPower = 0
    /\ ~carState.IsCarConnected
    /\ P1Usage = -2500
    /\ now = [weekday |-> 0, hour |-> 12]

C5_ScenarioFCharges ==
    (pc = "done" /\ ScenarioF) =>
        /\ result.kind = "ok"
        /\ \E i \in 1..Len(Out) : Out[i].isManual /\ Out[i].manualSetPower > 0
        /\ \A i \in 1..Len(Out) :
            (Out[i].isManual /\ Out[i].manualSetPower > 0) => Out[i].charge <= 60

\* C6 as stated: grid importing and car disconnected imply car intent 0 and no
\* manual battery with a positive setpoint, whatever the batteries' flows
C6_ImportNeverCharges ==
    (Returned /\ P1Usage > 0 /\ ~carState.IsCarConnected) =>
        /\ result.carIntent = 0
        /\ \A i \in 1..Len(Out) : Out[i].isManual => Out[i].manualSetPower <= 0

\* C6 amended: grid importing and car disconnected imply car intent 0, and no
\* manual battery has a positive setpoint unless the batteries' reported flows
\* make the imbalance negative
C6_ImportNeverChargesUnlessSurplus ==
    (Returned /\ P1Usage > 0 /\ ~carState.IsCarConnected) =>
        /\ result.carIntent = 0
        /\ (NetImbalance >= 0 =>
               \A i \in 1..Len(Out) : Out[i].isManual => Out[i].manualSetPower <= 0)

\* C6 witness: import, car disconnected, flows reported, and a helper discharging
C6_Witness ==
    /\ Returned
    /\ P1Usage > 0 /\ ~carState.IsCarConnected
    /\ NetImbalance >= 0
    /\ \E i \in 1..Len(batteries) : batteries[i].effectivePower # 0
    /\ \E i \in 1..Len(Out) : Out[i].isManual /\ Out[i].manualSetPower < 0

\* max(0, 2500 - |effectivePower|) of the larger of the previous and the new
\* automatic battery
C7_MaxCap ==
    LET caps == {Max2(0, 2500 - Abs(batteries[i].effectivePower)) :
                    i \in AutomaticOut \cup ({FirstAutomatic(batteries)} \ {None})}
    IN  CHOOSE m \in caps : \A c \in caps : c <= m

\* C7: if |imbalance| <= 1500 + maxCap/2 every non-automatic battery is idle in
\* the output whatever it carried in the input; otherwise the helper allocation
\* ran: a non-automatic battery is manual exactly when it has a setpoint, which
\* is at least 300 W against the imbalance, and from |imbalance| >= 2500 every
\* battery that is safe for the direction is a helper of at least 1250 W
C7_CapacityGuard ==
    Returned =>
        LET imb == NetImbalance
            sign == IF imb > 0 THEN -1 ELSE 1
        IN  IF 2 * Abs(imb) <= 3000 + C7_MaxCap
            THEN \A i \in 1..Len(Out) : ~Out[i].isAutomatic => IsIdle(Out[i])
            ELSE \A i \in 1..Len(Out) : ~Out[i].isAutomatic =>
                    /\ Out[i].isManual <=> Out[i].manualSetPower # 0
                    /\ Out[i].isManual => sign * Out[i].manualSetPower >= 300
                    /\ (/\ Abs(imb) >= 2500
                        /\ ~(sign < 0 /\ Out[i].charge <= 20)
                        /\ ~(sign > 0 /\ Out[i].charge >= 100))
                       => sign * Out[i].manualSetPower >= 1250

\* C7 witness: an imbalance above 1500 W that the previous automatic battery's
\* capacity covers and the new one's does not, with the others idle although
\* they came in with a setpoint or a flag
C7_Witness ==
    /\ Returned
    /\ Abs(NetImbalance) > 1500
    /\ 2 * Abs(NetImbalance) <= 3000 + C7_MaxCap
    /\ \E i \in AutomaticOut :
          2 * Abs(NetImbalance) > 3000 + Max2(0, 2500 - Abs(batteries[i].effectivePower))
    /\ \E i \in 1..Len(Out) : ~Out[i].isAutomatic /\ IsIdle(Out[i])

C9_OffPeak == now.weekday >= 5 \/ now.hour < 7 \/ now.hour >= 22

\* C9: car intent is non-zero only when the car is connected and either the
\* grid is exporting or the timestamp is off-peak, for every fleet
C9_CarIntentOnlyWhen ==
    pc = "done" =>
        \A up \in BOOLEAN :
            LET intent == IF result.kind = "ok" THEN result.carIntent
                          ELSE compute_car_intent(carState, P1Usage, LowHours(now),
                                                  batteries, up)
            IN  intent # 0 =>
                    (carState.IsCarConnected /\ (P1Usage < 0 \/ C9_OffPeak))

\* C9 witness: car connected, grid not exporting, Friday 21:00, batteries that
\* would allow off-peak charging, and the decided intent is 0
C9_Witness ==
    /\ Returned
    /\ carState.IsCarConnected
    /\ P1Usage >= 0
    /\ now = [weekday |-> 4, hour |-> 21]
    /\ \E i \in 1..Len(batteries) : batteries[i].charge > 20
    /\ result.carIntent = 0

\* C10: in a cycle whose snapshot carries the previous cycle's automatic flag,
\* the role stays on that battery whenever its SoC is strictly between 20 and 95
\* and either the scored candidate's SoC differs from it by less than 5 or
\* |imbalance| < 1500; it moves only to the scored candidate, and only when the
\* incumbent's SoC is <= 20 or >= 95 or both the difference is >= 5 and
\* |imbalance| >= 1500
C10_Hysteresis ==
    (Returned /\ prev_auto # None) =>
        LET soc == batteries[prev_auto].charge
            imb == NetImbalance
            cand == get_auto_candidate(batteries, imb).idx
            diff == Abs(batteries[cand].charge - soc)
            keep == 20 < soc /\ soc < 95 /\ (diff < 5 \/ Abs(imb) < 1500)
        IN  /\ keep => AutomaticOut = {prev_auto}
            /\ AutomaticOut # {prev_auto} =>
                  /\ AutomaticOut = {cand}
                  /\ \/ soc <= 20
                     \/ soc >= 95
                     \/ (diff >= 5 /\ Abs(imb) >= 1500)

\* C10 witness: a large imbalance, a scored candidate other than the incumbent
\* and less than 5 points away from it, and the role stayed
C10_Witness ==
    /\ Returned
    /\ prev_auto # None
    /\ batteries[prev_auto].isAutomatic
    /\ Abs(NetImbalance) >= 1500
    /\ LET cand == get_auto_candidate(batteries, NetImbalance).idx
       IN  /\ cand # prev_auto
           /\ batteries[cand].charge # batteries[prev_auto].charge
           /\ Abs(batteries[cand].charge - batteries[prev_auto].charge) < 5
    /\ AutomaticOut = {prev_auto}

\* The power asked of the manual batteries 1..k of a list, directions ignored
RECURSIVE C11_ManualTotal(_, _)
C11_ManualTotal(bats, k) ==
    IF k = 0 THEN 0
    ELSE (IF bats[k].isManual THEN Abs(bats[k].manualSetPower) ELSE 0)
            + C11_ManualTotal(bats, k - 1)

\* C11: the sum of |manualSetPower| over the output batteries with
\* isManual = true never exceeds |imbalance|, also with three or more batteries
C11_HelpersWithinImbalance ==
    Returned => C11_ManualTotal(Out, Len(Out)) <= Abs(NetImbalance)

\* C12: main_loop runs singleRun every cycle until the user interrupts it:
\* after any cycle, also one in which singleRun raised, another cycle is
\* eventually started (or the user has interrupted the loop)
C12_NextCycleStarts ==
    (loop \in {"sleep", "fatal"}) ~> (loop \in {"while", "stopped"})

\* C13: the battery chosen as automatic is safe for the direction of the
\* imbalance whenever a safe battery exists: above 100 W of imbalance and some
\* charge > 20 it has charge > 20, below -100 W and some charge < 95 it has
\* charge < 95, whichever battery the snapshot flags as previously automatic
C13_AutomaticIsSafe ==
    Returned =>
        /\ (/\ NetImbalance > 100
            /\ \E i \in 1..Len(batteries) : batteries[i].charge > 20)
           => \A i \in AutomaticOut : Out[i].charge > 20
        /\ (/\ NetImbalance < -100
            /\ \E i \in 1..Len(batteries) : batteries[i].charge < 95)
           => \A i \in AutomaticOut : Out[i].charge < 95

\* C13 witness: a discharging imbalance too small to move the role by itself,
\* the previously automatic battery at the lower limit, a safe battery in the
\* fleet, and the role moved to a safe one
C13_Witness ==
    /\ Returned
    /\ 100 < NetImbalance /\ NetImbalance < 1500
    /\ FirstAutomatic(batteries) # None
    /\ batteries[FirstAutomatic(batteries)].charge <= 20
    /\ \E i \in 1..Len(batteries) : batteries[i].charge > 20
    /\ AutomaticOut # {FirstAutomatic(batteries)}
    /\ \A i \in AutomaticOut : Out[i].charge > 20

====
